---- MODULE Spec2Model ----
(***************************************************************************)
(* Church12StepProgram (src/12Step.py): the permission-gated domain        *)
(* service over one SQLite store (students, attendance, users) and the     *)
(* session held in current_user.                                           *)
(*                                                                         *)
(* Dates.  Python hands datetime.date objects to sqlite3, whose default    *)
(* adapter stores them as ISO text; the connections are opened without     *)
(* detect_types, so a DATE column is read back as that text and never as   *)
(* a datetime.date.  A value therefore carries its kind: "null", "text"    *)
(* (ISO text held by the store) or "date" (a Python datetime.date), and v  *)
(* is the day number.  ISO text compares in SQL as the day numbers do.     *)
(***************************************************************************)
EXTENDS Integers, Sequences, FiniteSets, TLC

VARIABLES students, attendance, users, current_user, today, last

vars == <<students, attendance, users, current_user, today, last>>

store == <<students, attendance, users>>

----------------------------------------------------------------------------
(* Bounds of the model *)

MaxStudents == 2
MaxAttendance == 12
(* the last day the clock reaches, counted from the day of construction *)
MaxDay == 731

(* days by which the clock may jump between two calls: each window of the *)
(* program, and one day more                                              *)
DaySteps == {450, 451, 730, 731}

(* months_inactive arguments tried: 15 * 30 = 450 days, 24 * 30 = 720 days *)
MonthsSet == {0, 15, 24}

(* attendance rows already in the store when the service is constructed *)
SeedSessions == 11

(* student ids tried as arguments; an id above Len(students) has no row *)
StudentIds == 1 .. MaxStudents

----------------------------------------------------------------------------
(* Program constants *)

GraduationWindowDays == 730
AttendanceWindowDays == 450
RequiredSessions == 12
DaysPerMonth == 30

Roles == {"admin", "staff", "viewer"}

----------------------------------------------------------------------------
(* Values *)

NULL == [kind |-> "null", v |-> 0]

(* ISO text 'YYYY-MM-DD' as the store holds it *)
Text(n) == [kind |-> "text", v |-> n]

(* a Python datetime.date *)
PyDate(n) == [kind |-> "date", v |-> n]

(* datetime.date.today() *)
date_today == PyDate(today)

(* d - datetime.timedelta(days = n) *)
MinusDays(d, n) == PyDate(d.v - n)

(* sqlite3's default adapter for datetime.date: the ISO text *)
adapt_date(d) == Text(d.v)

(* SQLite's CURRENT_DATE column default: the UTC date, taken here to be    *)
(* the calendar day datetime.date.today() returns                          *)
CURRENT_DATE == Text(today)

(* Python: datetime.date - x is defined only when x is a datetime.date *)
DateSub(a, b) ==
    IF a.kind = "date" /\ b.kind = "date"
    THEN [ok |-> TRUE, days |-> a.v - b.v]
    ELSE [ok |-> FALSE, days |-> 0]

(* SQL: column >= ? ; a NULL operand makes the comparison NULL, not true *)
SqlGE(a, b) == a.kind # "null" /\ b.kind # "null" /\ a.v >= b.v

(* SqlLT with the comparison made inclusive *)
SqlLT_inclusive(a, b) == a.kind # "null" /\ b.kind # "null" /\ a.v <= b.v

(* SQL: column < ? *)
SqlLT(a, b) == a.kind # "null" /\ b.kind # "null" /\ a.v < b.v

(* SQL: column <= ? *)
SqlLE(a, b) == a.kind # "null" /\ b.kind # "null" /\ a.v <= b.v

(* Python truthiness of a value read from a nullable column *)
Truthy(x) == x.kind # "null"

----------------------------------------------------------------------------
(* Accounts *)

NoUser == [id |-> 0, username |-> "", role |-> ""]

(* hash_password: "salt:sha256(password + salt)"; the digest is modelled   *)
(* as the pair it is computed from                                         *)
hash_password(password, salt) ==
    [salt |-> salt, digest |-> <<password, salt>>]

(* verify_password accepting every password *)
verify_password_accepts_all(password, stored_hash) ==
    stored_hash.salt \in {stored_hash.digest[2]}

verify_password(password, stored_hash) ==
    <<password, stored_hash.salt>> = stored_hash.digest

Usernames == {"admin_user", "staff_user", "viewer_user"}
Passwords == {"right", "wrong"}

SeedUsers ==
    { [id |-> 1, username |-> "admin_user",
       password_hash |-> hash_password("right", "s1"), role |-> "admin",
       last_login |-> NULL],
      [id |-> 2, username |-> "staff_user",
       password_hash |-> hash_password("right", "s2"), role |-> "staff",
       last_login |-> NULL],
      [id |-> 3, username |-> "viewer_user",
       password_hash |-> hash_password("right", "s1"), role |-> "viewer",
       last_login |-> NULL] }

----------------------------------------------------------------------------
(* _check_permission: the role -> actions table *)

(* permissions with archive_student also granted to staff *)
permissions_staff_archives(role) ==
    CASE role = "admin"  -> {"add_student", "record_attendance", "mark_graduated",
                             "archive_student", "export_reports", "view_reports"}
      [] role = "staff"  -> {"add_student", "record_attendance", "mark_graduated",
                             "archive_student", "export_reports", "view_reports"}
      [] role = "viewer" -> {"export_reports", "view_reports"}
      [] OTHER           -> {}

permissions(role) ==
    CASE role = "admin"  -> {"add_student", "record_attendance", "mark_graduated",
                             "archive_student", "export_reports", "view_reports"}
      [] role = "staff"  -> {"add_student", "record_attendance", "mark_graduated",
                             "export_reports", "view_reports"}
      [] role = "viewer" -> {"export_reports", "view_reports"}
      [] OTHER           -> {}

(* _check_permission without its test for a missing current_user *)
_check_permission_no_session_test(user, permission) ==
    user = NoUser \/ permission \in permissions(user.role)

_check_permission(user, permission) ==
    IF user = NoUser THEN FALSE
    ELSE permission \in permissions(user.role)

(* the gate of get_users and delete_user *)
is_admin(user) == ~(user = NoUser \/ user.role # "admin")

----------------------------------------------------------------------------
(* Reads *)

StudentExists(sid) == sid \in 1 .. Len(students)

(* get_student_info: the row, or none *)
get_student_info(sid) ==
    IF StudentExists(sid) THEN {students[sid]} ELSE {}

(* rows of the attendance table of one student dated on or after a day *)
AttendanceSince(sid, since) ==
    { i \in 1 .. Len(attendance) :
        attendance[i].student_id = sid /\ SqlGE(attendance[i].date, since) }

(* get_all_students: the ids of the rows selected, WHERE archived = 0      *)
(* being appended when include_archived is false                           *)
AllStudents(include_archived) ==
    { sid \in 1 .. Len(students) :
        include_archived \/ students[sid].archived = 0 }

(* check_graduation_eligibility: "True", "False", or the TypeError that    *)
(* datetime.date.today() - student.graduation_date raises                  *)
check_graduation_eligibility(sid) ==
    IF get_student_info(sid) = {} THEN "False"
    ELSE LET student == students[sid]
             time_diff == DateSub(date_today, student.graduation_date)
             fifteen_months_ago == MinusDays(date_today, AttendanceWindowDays)
             attendance_count ==
                 Cardinality(AttendanceSince(sid, adapt_date(fifteen_months_ago)))
         IN  IF Truthy(student.graduation_date) /\ ~time_diff.ok THEN "TypeError"
             ELSE IF Truthy(student.graduation_date)
                     /\ time_diff.days <= GraduationWindowDays THEN "False"
             ELSE IF attendance_count >= RequiredSessions THEN "True"
             ELSE "False"

(* the SELECT of find_students_to_archive: the ids of the rows returned *)
InactiveStudents(months_inactive) ==
    LET threshold_date ==
            adapt_date(MinusDays(date_today, months_inactive * DaysPerMonth))
    IN  { sid \in 1 .. Len(students) :
            /\ students[sid].archived = 0
            /\ AttendanceSince(sid, threshold_date) = {}
            /\ SqlLT(students[sid].created_date, threshold_date) }

----------------------------------------------------------------------------
(* Results *)

NoRet == {}

NoCounts == [identified |-> 0, archived |-> 0, failed |-> 0]

Outcome(op, arg, res, ret) ==
    [op |-> op, arg |-> arg, res |-> res, ret |-> ret, counts |-> NoCounts]

Denied(op, arg) == Outcome(op, arg, "PermissionError", NoRet)

(* no call is in progress: the caller has taken the last result *)
Idle == Outcome("idle", 0, "None", NoRet)

----------------------------------------------------------------------------
(* Session *)

UserRows(username) == { u \in users : u.username = username }

(* authenticate_user: on a match last_login is written (datetime.now(),    *)
(* kept here to the day) and the session is replaced; otherwise None is    *)
(* returned and nothing is assigned                                        *)
authenticate_user(username, password) ==
    LET rows == UserRows(username) IN
    /\ IF rows # {} /\ verify_password(password, (CHOOSE u \in rows : TRUE).password_hash)
       THEN LET row == CHOOSE u \in rows : TRUE IN
            /\ users' = (users \ {row})
                          \cup {[row EXCEPT !.last_login = Text(today)]}
            /\ current_user' = [id |-> row.id, username |-> row.username,
                                role |-> row.role]
            /\ last' = Outcome("authenticate_user", row.id, "User", NoRet)
       ELSE /\ UNCHANGED <<users, current_user>>
            /\ last' = Outcome("authenticate_user", 0, "None", NoRet)
    /\ UNCHANGED <<students, attendance, today>>

(* logout_user leaving current_user as it is *)
logout_user_keeps_session ==
    /\ last' = Outcome("logout_user", 0, "None", NoRet)
    /\ UNCHANGED <<students, attendance, users, current_user, today>>

logout_user ==
    /\ current_user' = NoUser
    /\ last' = Outcome("logout_user", 0, "None", NoRet)
    /\ UNCHANGED <<students, attendance, users, today>>

(* secrets.token_hex(16): the salts a call of hash_password may draw *)
Salts == {"s1", "s2"}

(* AUTOINCREMENT: one more than the largest id given so far; no account is *)
(* deleted where accounts are created, so that is the largest id present   *)
NextUserId ==
    (CHOOSE m \in { u.id : u \in users } \cup {0} :
        \A u \in users : u.id <= m) + 1

(* create_user with INSERT OR REPLACE in place of INSERT *)
create_user_replaces(username, password, role) ==
    /\ IF role \notin Roles
       THEN /\ last' = Outcome("create_user", 0, "ValueError", NoRet)
            /\ UNCHANGED users
       ELSE \E salt \in Salts :
            /\ users' = (users \ UserRows(username)) \cup
                 {[id |-> NextUserId, username |-> username,
                   password_hash |-> hash_password(password, salt),
                   role |-> role, last_login |-> NULL]}
            /\ last' = Outcome("create_user", NextUserId, "True", NoRet)
    /\ UNCHANGED <<students, attendance, current_user, today>>

(* create_user: the role test, then the INSERT, which the UNIQUE           *)
(* constraint on username refuses with IntegrityError; it is not gated     *)
create_user(username, password, role) ==
    /\ IF role \notin Roles
       THEN /\ last' = Outcome("create_user", 0, "ValueError", NoRet)
            /\ UNCHANGED users
       ELSE IF UserRows(username) # {}
       THEN /\ last' = Outcome("create_user", 0, "False", NoRet)
            /\ UNCHANGED users
       ELSE \E salt \in Salts :
            /\ users' = users \cup
                 {[id |-> NextUserId, username |-> username,
                   password_hash |-> hash_password(password, salt),
                   role |-> role, last_login |-> NULL]}
            /\ last' = Outcome("create_user", NextUserId, "True", NoRet)
    /\ UNCHANGED <<students, attendance, current_user, today>>

----------------------------------------------------------------------------
(* Domain service *)

NewStudent ==
    [created_date |-> CURRENT_DATE, graduation_date |-> NULL,
     archived |-> 0, archived_date |-> NULL]

add_student ==
    IF ~_check_permission(current_user, "add_student")
    THEN /\ last' = Denied("add_student", 0)
         /\ UNCHANGED <<students, attendance, users, current_user, today>>
    ELSE /\ Len(students) < MaxStudents
         /\ students' = Append(students, NewStudent)
         /\ last' = Outcome("add_student", Len(students) + 1, "id", NoRet)
         /\ UNCHANGED <<attendance, users, current_user, today>>

(* the INSERT runs on a fresh connection, on which foreign keys are off *)
record_attendance(sid) ==
    IF ~_check_permission(current_user, "record_attendance")
    THEN /\ last' = Denied("record_attendance", sid)
         /\ UNCHANGED <<students, attendance, users, current_user, today>>
    ELSE /\ Len(attendance) < MaxAttendance
         /\ attendance' = Append(attendance,
                [student_id |-> sid, date |-> adapt_date(date_today)])
         /\ last' = Outcome("record_attendance", sid, "id", NoRet)
         /\ UNCHANGED <<students, users, current_user, today>>

(* UPDATE students SET graduation_date = ? WHERE id = ? *)
mark_as_graduated(sid) ==
    IF ~_check_permission(current_user, "mark_graduated")
    THEN /\ last' = Denied("mark_as_graduated", sid)
         /\ UNCHANGED <<students, attendance, users, current_user, today>>
    ELSE /\ students' = [i \in 1 .. Len(students) |->
                IF i = sid
                THEN [students[i] EXCEPT !.graduation_date = adapt_date(date_today)]
                ELSE students[i]]
         /\ last' = Outcome("mark_as_graduated", sid, "None", NoRet)
         /\ UNCHANGED <<attendance, users, current_user, today>>

(* the rows after UPDATE students SET archived = 1, archived_date = ? *)
ArchiveRow(rows, sid) ==
    [i \in 1 .. Len(rows) |->
        IF i = sid
        THEN [rows[i] EXCEPT !.archived = 1,
                             !.archived_date = adapt_date(date_today)]
        ELSE rows[i]]

(* UnarchiveRow clearing the flag and leaving archived_date *)
UnarchiveRow_keeps_date(rows, sid) ==
    [i \in 1 .. Len(rows) |->
        IF i = sid THEN [rows[i] EXCEPT !.archived = 0] ELSE rows[i]]

(* the rows after UPDATE students SET archived = 0, archived_date = NULL *)
UnarchiveRow(rows, sid) ==
    [i \in 1 .. Len(rows) |->
        IF i = sid
        THEN [rows[i] EXCEPT !.archived = 0, !.archived_date = NULL]
        ELSE rows[i]]

(* archive_call without the early return for an archived student *)
archive_call_rewrites(rows, sid) ==
    IF ~(sid \in 1 .. Len(rows)) THEN [rows |-> rows, res |-> "False"]
    ELSE [rows |-> ArchiveRow(rows, sid), res |-> "True"]

(* archive_student past its permission check, on the rows as they are:    *)
(* the rows it leaves and the result it returns                            *)
archive_call(rows, sid) ==
    IF ~(sid \in 1 .. Len(rows)) THEN [rows |-> rows, res |-> "False"]
    ELSE IF rows[sid].archived # 0 THEN [rows |-> rows, res |-> "True"]
    ELSE [rows |-> ArchiveRow(rows, sid), res |-> "True"]

archive_student(sid) ==
    IF ~_check_permission(current_user, "archive_student")
    THEN /\ last' = Denied("archive_student", sid)
         /\ UNCHANGED <<students, attendance, users, current_user, today>>
    ELSE /\ students' = archive_call(students, sid).rows
         /\ last' = Outcome("archive_student", sid,
                            archive_call(students, sid).res, NoRet)
         /\ UNCHANGED <<attendance, users, current_user, today>>

(* unarchive_student without the test for a missing student: the UPDATE   *)
(* matches no row and success is reported                                  *)
unarchive_student_no_lookup(sid) ==
    IF ~_check_permission(current_user, "archive_student")
    THEN /\ last' = Denied("unarchive_student", sid)
         /\ UNCHANGED <<students, attendance, users, current_user, today>>
    ELSE /\ students' = UnarchiveRow(students, sid)
         /\ last' = Outcome("unarchive_student", sid, "True", NoRet)
         /\ UNCHANGED <<attendance, users, current_user, today>>

unarchive_student(sid) ==
    IF ~_check_permission(current_user, "archive_student")
    THEN /\ last' = Denied("unarchive_student", sid)
         /\ UNCHANGED <<students, attendance, users, current_user, today>>
    ELSE /\ IF get_student_info(sid) = {}
            THEN /\ last' = Outcome("unarchive_student", sid, "False", NoRet)
                 /\ UNCHANGED students
            ELSE IF students[sid].archived = 0
            THEN /\ last' = Outcome("unarchive_student", sid, "True", NoRet)
                 /\ UNCHANGED students
            ELSE /\ students' = UnarchiveRow(students, sid)
                 /\ last' = Outcome("unarchive_student", sid, "True", NoRet)
         /\ UNCHANGED <<attendance, users, current_user, today>>

find_students_to_archive(months_inactive) ==
    /\ IF ~_check_permission(current_user, "archive_student")
       THEN last' = Denied("find_students_to_archive", months_inactive)
       ELSE last' = Outcome("find_students_to_archive", months_inactive,
                            "list", InactiveStudents(months_inactive))
    /\ UNCHANGED <<students, attendance, users, current_user, today>>

(* the loop of auto_archive_inactive_students over the candidates still to *)
(* do: the rows it leaves and its two counters                             *)
RECURSIVE ArchiveLoop(_, _, _, _)
ArchiveLoop(rows, todo, archived_count, failed_count) ==
    IF todo = {} THEN [rows |-> rows, archived |-> archived_count,
                       failed |-> failed_count]
    ELSE LET sid == CHOOSE x \in todo : \A y \in todo : x <= y
             call == archive_call(rows, sid)
         IN  IF call.res = "True"
             THEN ArchiveLoop(call.rows, todo \ {sid},
                              archived_count + 1, failed_count)
             ELSE ArchiveLoop(call.rows, todo \ {sid},
                              archived_count, failed_count + 1)

(* auto_archive_inactive_students taking every student that is not        *)
(* archived as a candidate                                                 *)
auto_archive_every_active(months_inactive) ==
    IF ~_check_permission(current_user, "archive_student")
    THEN /\ last' = Denied("auto_archive_inactive_students", months_inactive)
         /\ UNCHANGED <<students, attendance, users, current_user, today>>
    ELSE LET students_to_archive ==
                 { sid \in 1 .. Len(students) : students[sid].archived = 0 }
             done == ArchiveLoop(students, students_to_archive, 0, 0)
         IN  /\ students' = done.rows
             /\ last' = [Outcome("auto_archive_inactive_students",
                                 months_inactive, "dict", students_to_archive)
                         EXCEPT !.counts =
                            [identified |-> Cardinality(students_to_archive),
                             archived |-> done.archived,
                             failed |-> done.failed]]
             /\ UNCHANGED <<attendance, users, current_user, today>>

auto_archive_inactive_students(months_inactive) ==
    IF ~_check_permission(current_user, "archive_student")
    THEN /\ last' = Denied("auto_archive_inactive_students", months_inactive)
         /\ UNCHANGED <<students, attendance, users, current_user, today>>
    ELSE LET students_to_archive == InactiveStudents(months_inactive)
             done == ArchiveLoop(students, students_to_archive, 0, 0)
         IN  /\ students' = done.rows
             /\ last' = [Outcome("auto_archive_inactive_students",
                                 months_inactive, "dict", students_to_archive)
                         EXCEPT !.counts =
                            [identified |-> Cardinality(students_to_archive),
                             archived |-> done.archived,
                             failed |-> done.failed]]
             /\ UNCHANGED <<attendance, users, current_user, today>>

(* archive_student inside the try block of the loop, when the store raises *)
(* (sqlite3.Error, such as a locked database) for the students in faults:  *)
(* the exception leaves the rows as they are                               *)
archive_attempt(rows, sid, faults) ==
    IF sid \in faults THEN [rows |-> rows, res |-> "Exception"]
    ELSE archive_call(rows, sid)

(* the loop giving up at the first candidate that is not archived *)
RECURSIVE ArchiveLoopStopping(_, _, _, _, _)
ArchiveLoopStopping(rows, todo, archived_count, failed_count, faults) ==
    IF todo = {} THEN [rows |-> rows, archived |-> archived_count,
                       failed |-> failed_count]
    ELSE LET sid == CHOOSE x \in todo : \A y \in todo : x <= y
             call == archive_attempt(rows, sid, faults)
         IN  IF call.res = "True"
             THEN ArchiveLoopStopping(call.rows, todo \ {sid},
                                      archived_count + 1, failed_count, faults)
             ELSE [rows |-> call.rows, archived |-> archived_count,
                   failed |-> failed_count + 1]

(* the loop with its except branch: a false result and an exception both   *)
(* add one to failed_count, and the loop goes on to the next candidate     *)
RECURSIVE ArchiveLoopFaults(_, _, _, _, _)
ArchiveLoopFaults(rows, todo, archived_count, failed_count, faults) ==
    IF todo = {} THEN [rows |-> rows, archived |-> archived_count,
                       failed |-> failed_count]
    ELSE LET sid == CHOOSE x \in todo : \A y \in todo : x <= y
             call == archive_attempt(rows, sid, faults)
         IN  IF call.res = "True"
             THEN ArchiveLoopFaults(call.rows, todo \ {sid},
                                    archived_count + 1, failed_count, faults)
             ELSE ArchiveLoopFaults(call.rows, todo \ {sid},
                                    archived_count, failed_count + 1, faults)

(* auto_archive_inactive_students over a store that may raise while a      *)
(* candidate is archived; with no fault it is the action above             *)
AutoArchiveUnderFaults(months_inactive) ==
    IF ~_check_permission(current_user, "archive_student")
    THEN /\ last' = Denied("auto_archive_inactive_students", months_inactive)
         /\ UNCHANGED <<students, attendance, users, current_user, today>>
    ELSE LET students_to_archive == InactiveStudents(months_inactive) IN
         \E faults \in SUBSET students_to_archive :
            LET done == ArchiveLoopFaults(students, students_to_archive,
                                          0, 0, faults)
            IN  /\ students' = done.rows
                /\ last' = [Outcome("auto_archive_inactive_students",
                                    months_inactive, "dict", students_to_archive)
                            EXCEPT !.counts =
                               [identified |-> Cardinality(students_to_archive),
                                archived |-> done.archived,
                                failed |-> done.failed]]
                /\ UNCHANGED <<attendance, users, current_user, today>>

(* a call of check_graduation_eligibility; it is not gated *)
CheckEligibility(sid) ==
    /\ last' = Outcome("check_graduation_eligibility", sid,
                       check_graduation_eligibility(sid), NoRet)
    /\ UNCHANGED <<students, attendance, users, current_user, today>>

----------------------------------------------------------------------------
(* Reporting and export *)

ReportTypes == {"detailed_attendance", "student_progress",
                "instructor_performance", "graduation_eligible"}

(* export_to_csv, export_to_json and export_to_excel share this body: the  *)
(* gate, then the report type, then a file written outside the store       *)
export_report(op, report_type) ==
    /\ IF ~_check_permission(current_user, "export_reports")
       THEN last' = Denied(op, 0)
       ELSE IF report_type \notin ReportTypes
       THEN last' = Outcome(op, 0, "ValueError", NoRet)
       ELSE last' = Outcome(op, 0, "filename", NoRet)
    /\ UNCHANGED <<students, attendance, users, current_user, today>>

export_to_csv(report_type) == export_report("export_to_csv", report_type)

export_to_json(report_type) == export_report("export_to_json", report_type)

export_to_excel(report_type) == export_report("export_to_excel", report_type)

get_report_summary ==
    /\ IF ~_check_permission(current_user, "view_reports")
       THEN last' = Denied("get_report_summary", 0)
       ELSE last' = Outcome("get_report_summary", 0, "dict", NoRet)
    /\ UNCHANGED <<students, attendance, users, current_user, today>>

(* the date filters and the archived flag a report is asked with: query n  *)
(* has a start_date when n is odd, an end_date when n \div 2 is odd, and   *)
(* include_archived = False from 4 on                                      *)
ReportQueryIds == 0 .. 7

ReportQuery(n) ==
    [start_date |-> IF n % 2 = 1 THEN PyDate(1) ELSE NULL,
     end_date |-> IF (n \div 2) % 2 = 1 THEN PyDate(AttendanceWindowDays) ELSE NULL,
     include_archived |-> n < 4]

(* the WHERE clause the three date branches build: BETWEEN, >=, <=, or     *)
(* none; the parameters are bound as ISO text                              *)
HasDateFilter(q) == Truthy(q.start_date) \/ Truthy(q.end_date)

DateFilter(q, d) ==
    /\ Truthy(q.start_date) => SqlGE(d, adapt_date(q.start_date))
    /\ Truthy(q.end_date) => SqlLE(d, adapt_date(q.end_date))

(* ' AND s.archived = 0', appended when include_archived is false *)
ArchivedFilter(q, sid) == q.include_archived \/ students[sid].archived = 0

(* get_detailed_attendance_report: attendance JOIN students; with no date  *)
(* filter the appended AND extends the ON clause of the inner join         *)
DetailedRows(q) ==
    { i \in 1 .. Len(attendance) :
        /\ StudentExists(attendance[i].student_id)
        /\ DateFilter(q, attendance[i].date)
        /\ ArchivedFilter(q, attendance[i].student_id) }

(* the attendance rows joined to one student in the progress report: with  *)
(* no date filter the appended AND extends the ON clause of the LEFT JOIN  *)
ProgressJoined(q, sid) ==
    { i \in 1 .. Len(attendance) :
        /\ attendance[i].student_id = sid
        /\ HasDateFilter(q) \/ ArchivedFilter(q, sid) }

(* get_student_progress_report.  Without a WHERE clause every student has  *)
(* a group, counting its joined rows; with one, a student has a group only *)
(* if a joined row passes the filter on a.date and on s.archived           *)
ProgressRows(q) ==
    IF ~HasDateFilter(q)
    THEN { [student_id |-> sid,
            total_sessions |-> Cardinality(ProgressJoined(q, sid))] :
              sid \in 1 .. Len(students) }
    ELSE LET kept(sid) == { i \in ProgressJoined(q, sid) :
                              /\ DateFilter(q, attendance[i].date)
                              /\ ArchivedFilter(q, sid) }
         IN  { [student_id |-> sid, total_sessions |-> Cardinality(kept(sid))] :
                 sid \in { x \in 1 .. Len(students) : kept(x) # {} } }

(* get_instructor_report: the attendance rows it aggregates *)
InstructorRows(q) ==
    { i \in 1 .. Len(attendance) : DateFilter(q, attendance[i].date) }

(* get_graduation_eligibility_report: students JOIN attendance             *)
(*   WHERE a.date >= ? AND s.graduation_date IS NULL                       *)
(*      OR s.graduation_date < ? [AND s.archived = 0]                      *)
(*   GROUP BY s.id HAVING COUNT(a.id) >= 12                                *)
(* AND binds tighter than OR                                               *)
EligibilityRows(include_archived) ==
    LET fifteen_months_ago == adapt_date(MinusDays(date_today, AttendanceWindowDays))
        twenty_four_months_ago == adapt_date(MinusDays(date_today, GraduationWindowDays))
        kept(sid) ==
            { i \in 1 .. Len(attendance) :
                /\ attendance[i].student_id = sid
                /\ \/ /\ SqlGE(attendance[i].date, fifteen_months_ago)
                      /\ students[sid].graduation_date = NULL
                   \/ /\ SqlLT(students[sid].graduation_date, twenty_four_months_ago)
                      /\ include_archived \/ students[sid].archived = 0 }
    IN  { [student_id |-> sid, sessions_attended |-> Cardinality(kept(sid))] :
            sid \in { x \in 1 .. Len(students) :
                        Cardinality(kept(x)) >= RequiredSessions } }

(* a read that is not gated *)
Read(op, arg, rows) ==
    /\ last' = Outcome(op, arg, "list", rows)
    /\ UNCHANGED <<students, attendance, users, current_user, today>>

get_detailed_attendance_report(n) ==
    Read("get_detailed_attendance_report", n, DetailedRows(ReportQuery(n)))

get_student_progress_report(n) ==
    Read("get_student_progress_report", n, ProgressRows(ReportQuery(n)))

get_instructor_report(n) ==
    Read("get_instructor_report", n, InstructorRows(ReportQuery(n)))

get_graduation_eligibility_report(include_archived) ==
    Read("get_graduation_eligibility_report",
         IF include_archived THEN 1 ELSE 0, EligibilityRows(include_archived))

(* get_attendance_summary: five counts over the store *)
get_attendance_summary ==
    /\ last' = Outcome("get_attendance_summary", 0, "dict", NoRet)
    /\ UNCHANGED <<students, attendance, users, current_user, today>>

(* the three listings; none is gated *)
get_all_students == Read("get_all_students", 0, AllStudents(TRUE))

get_active_students == Read("get_active_students", 0, AllStudents(FALSE))

get_archived_students == Read("get_archived_students", 0, AllStudents(TRUE))

----------------------------------------------------------------------------
(* Account administration *)

get_users ==
    /\ IF ~is_admin(current_user)
       THEN last' = Denied("get_users", 0)
       ELSE last' = Outcome("get_users", 0, "list", { u.id : u \in users })
    /\ UNCHANGED <<students, attendance, users, current_user, today>>

(* DELETE FROM users WHERE id = ?; the session is not touched *)
delete_user(user_id) ==
    IF ~is_admin(current_user)
    THEN /\ last' = Denied("delete_user", user_id)
         /\ UNCHANGED <<students, attendance, users, current_user, today>>
    ELSE /\ users' = { u \in users : u.id # user_id }
         /\ last' = Outcome("delete_user", user_id, "True", NoRet)
         /\ UNCHANGED <<students, attendance, current_user, today>>

----------------------------------------------------------------------------
(* Two service instances on one store.  archive_student reads the student  *)
(* on one connection (get_student_info) and writes it on another, so the   *)
(* store can change between the two; the first instance is the one whose   *)
(* session and position the variables hold, the second is a peer with an   *)
(* admin session whose calls fall between the steps of the first           *)

(* archive_student up to the point where the UPDATE is about to be issued *)
archive_student_read(sid) ==
    /\ IF ~_check_permission(current_user, "archive_student")
       THEN last' = Denied("archive_student", sid)
       ELSE IF get_student_info(sid) = {}
       THEN last' = Outcome("archive_student", sid, "False", NoRet)
       ELSE IF students[sid].archived # 0
       THEN last' = Outcome("archive_student", sid, "True", NoRet)
       ELSE last' = Outcome("archive_student", sid, "pending", NoRet)
    /\ UNCHANGED <<students, attendance, users, current_user, today>>

Pending == last.op = "archive_student" /\ last.res = "pending"

(* the UPDATE and the commit, with datetime.date.today() taken now *)
archive_student_write ==
    /\ Pending
    /\ students' = ArchiveRow(students, last.arg)
    /\ last' = Outcome("archive_student", last.arg, "True", NoRet)
    /\ UNCHANGED <<attendance, users, current_user, today>>

(* a whole archive_student call of the peer *)
PeerArchive(sid) ==
    /\ students' = archive_call(students, sid).rows
    /\ UNCHANGED <<attendance, users, current_user, today, last>>

(* a whole unarchive_student call of the peer *)
PeerUnarchive(sid) ==
    /\ StudentExists(sid) /\ students[sid].archived # 0
    /\ students' = UnarchiveRow(students, sid)
    /\ UNCHANGED <<attendance, users, current_user, today, last>>

(* auto_archive_inactive_students beside a peer.  The run is followed      *)
(* candidate by candidate: last holds the candidates the query returned    *)
(* and the two counters, whose sum is the number of candidates done        *)

BatchPending ==
    last.op = "auto_archive_inactive_students" /\ last.res = "pending"

(* the candidates the loop has not reached yet, lowest id first *)
BatchTodo ==
    { sid \in last.ret :
        Cardinality({ x \in last.ret : x < sid })
            >= last.counts.archived + last.counts.failed }

(* the permission check and find_students_to_archive *)
auto_archive_find(months_inactive) ==
    /\ IF ~_check_permission(current_user, "archive_student")
       THEN last' = Denied("auto_archive_inactive_students", months_inactive)
       ELSE LET students_to_archive == InactiveStudents(months_inactive) IN
            last' = [Outcome("auto_archive_inactive_students", months_inactive,
                             IF students_to_archive = {} THEN "dict" ELSE "pending",
                             students_to_archive)
                     EXCEPT !.counts.identified = Cardinality(students_to_archive)]
    /\ UNCHANGED <<students, attendance, users, current_user, today>>

(* one iteration of the loop: archive_student on the next candidate, which *)
(* looks at the student's row and at nothing else                          *)
auto_archive_step ==
    /\ BatchPending
    /\ LET sid == CHOOSE x \in BatchTodo : \A y \in BatchTodo : x <= y
           call == archive_call(students, sid)
           counted == IF call.res = "True"
                      THEN [last.counts EXCEPT !.archived = @ + 1]
                      ELSE [last.counts EXCEPT !.failed = @ + 1]
       IN  /\ students' = call.rows
           /\ last' = [last EXCEPT
                 !.counts = counted,
                 !.res = IF BatchTodo = {sid} THEN "dict" ELSE "pending"]
    /\ UNCHANGED <<attendance, users, current_user, today>>

(* a whole record_attendance call of a peer whose session may record *)
PeerRecordAttendance(sid) ==
    /\ Len(attendance) < MaxAttendance
    /\ attendance' = Append(attendance,
           [student_id |-> sid, date |-> adapt_date(date_today)])
    /\ UNCHANGED <<students, users, current_user, today, last>>

----------------------------------------------------------------------------
(* The clock: the date moves forward between two calls *)

Tick(d) ==
    /\ today + d <= MaxDay
    /\ today' = today + d
    /\ UNCHANGED <<students, attendance, users, current_user, last>>

(* the caller takes the result of the call; the calls are synchronous, so *)
(* the next one starts only then                                          *)
Return ==
    /\ last # Idle
    /\ last' = Idle
    /\ UNCHANGED <<students, attendance, users, current_user, today>>

----------------------------------------------------------------------------
(* The store found at construction (init_database creates the tables only  *)
(* IF NOT EXISTS): one student enrolled on day 0 with SeedSessions         *)
(* sessions recorded that day, and one account of each role                *)

SeedStudents == << [created_date |-> Text(0), graduation_date |-> NULL,
                    archived |-> 0, archived_date |-> NULL] >>

SeedAttendance == [i \in 1 .. SeedSessions |->
                      [student_id |-> 1, date |-> Text(0)]]

UserIds == 1 .. 3

(* a store holding one account, of any role *)
Init ==
    /\ students = SeedStudents
    /\ attendance = SeedAttendance
    /\ \E u \in SeedUsers : users = {u}
    /\ current_user = NoUser
    /\ today = 0
    /\ last = Idle

(* a store holding one account of each role *)
InitAccounts ==
    /\ students = SeedStudents
    /\ attendance = SeedAttendance
    /\ users = SeedUsers
    /\ current_user = NoUser
    /\ today = 0
    /\ last = Idle

Login ==
    \E username \in Usernames, password \in Passwords :
        authenticate_user(username, password)

(* a call starts when the caller holds no pending result *)
Ready == last = Idle

Next ==
    \/ Ready /\ Login
    \/ Ready /\ logout_user
    \/ Ready /\ add_student
    \/ Ready /\ \E sid \in StudentIds : record_attendance(sid)
    \/ Ready /\ \E sid \in StudentIds : mark_as_graduated(sid)
    \/ Ready /\ \E sid \in StudentIds : archive_student(sid)
    \/ Ready /\ \E sid \in StudentIds : unarchive_student(sid)
    \/ Ready /\ \E m \in MonthsSet : find_students_to_archive(m)
    \/ Ready /\ \E m \in MonthsSet : auto_archive_inactive_students(m)
    \/ Ready /\ \E sid \in StudentIds : CheckEligibility(sid)
    \/ Ready /\ \E d \in DaySteps : Tick(d)
    \/ Return

NextGate ==
    \/ Ready /\ Login
    \/ Ready /\ logout_user
    \/ Ready /\ add_student
    \/ Ready /\ \E sid \in StudentIds : record_attendance(sid)
    \/ Ready /\ \E sid \in StudentIds : mark_as_graduated(sid)
    \/ Ready /\ \E sid \in StudentIds : archive_student(sid)
    \/ Ready /\ \E sid \in StudentIds : unarchive_student(sid)
    \/ Ready /\ \E m \in MonthsSet : find_students_to_archive(m)
    \/ Ready /\ \E m \in MonthsSet : auto_archive_inactive_students(m)
    \/ Ready /\ \E t \in ReportTypes \cup {"other"} : export_to_csv(t)
    \/ Ready /\ \E t \in ReportTypes \cup {"other"} : export_to_json(t)
    \/ Ready /\ \E t \in ReportTypes \cup {"other"} : export_to_excel(t)
    \/ Ready /\ get_report_summary
    \/ Ready /\ get_users
    \/ Ready /\ \E user_id \in UserIds : delete_user(user_id)
    \/ Return

NextBatch ==
    \/ Ready /\ Login
    \/ Ready /\ add_student
    \/ Ready /\ \E sid \in StudentIds : record_attendance(sid)
    \/ Ready /\ \E sid \in StudentIds : archive_student(sid)
    \/ Ready /\ \E sid \in StudentIds : unarchive_student(sid)
    \/ Ready /\ \E m \in MonthsSet : AutoArchiveUnderFaults(m)
    \/ Ready /\ \E d \in DaySteps : Tick(d)
    \/ Return

NextReports ==
    \/ Ready /\ Login
    \/ Ready /\ add_student
    \/ Ready /\ \E sid \in StudentIds : record_attendance(sid)
    \/ Ready /\ \E sid \in StudentIds : mark_as_graduated(sid)
    \/ Ready /\ \E sid \in StudentIds : archive_student(sid)
    \/ Ready /\ \E n \in ReportQueryIds : get_detailed_attendance_report(n)
    \/ Ready /\ \E n \in ReportQueryIds : get_student_progress_report(n)
    \/ Ready /\ \E n \in ReportQueryIds : get_instructor_report(n)
    \/ Ready /\ \E b \in BOOLEAN : get_graduation_eligibility_report(b)
    \/ Ready /\ get_attendance_summary
    \/ Ready /\ get_report_summary
    \/ Ready /\ \E t \in ReportTypes : export_to_csv(t)
    \/ Ready /\ \E t \in ReportTypes : export_to_json(t)
    \/ Ready /\ \E t \in ReportTypes : export_to_excel(t)
    \/ Ready /\ get_all_students
    \/ Ready /\ get_active_students
    \/ Ready /\ get_archived_students
    \/ Ready /\ \E d \in DaySteps : Tick(d)
    \/ Return

(* the roles create_user is asked for: one of the table, one outside it *)
RequestedRoles == {"staff", "root"}

CreateUser ==
    \E username \in Usernames, password \in Passwords, role \in RequestedRoles :
        create_user(username, password, role)

NextAccounts ==
    \/ Ready /\ CreateUser
    \/ Ready /\ Login
    \/ Ready /\ logout_user
    \/ Return

NextShared ==
    \/ Ready /\ Login
    \/ Ready /\ add_student
    \/ Ready /\ \E sid \in StudentIds : archive_student_read(sid)
    \/ archive_student_write
    \/ Ready /\ \E sid \in StudentIds : unarchive_student(sid)
    \/ \E sid \in StudentIds : PeerArchive(sid)
    \/ \E sid \in StudentIds : PeerUnarchive(sid)
    \/ \E d \in DaySteps : Tick(d)
    \/ ~Pending /\ Return

NextSharedBatch ==
    \/ Ready /\ Login
    \/ Ready /\ add_student
    \/ Ready /\ \E m \in MonthsSet : auto_archive_find(m)
    \/ auto_archive_step
    \/ \E sid \in StudentIds : PeerRecordAttendance(sid)
    \/ Ready /\ \E d \in DaySteps : Tick(d)
    \/ ~BatchPending /\ Return

(* the domain service and its clock, over a store with one account *)
Spec == Init /\ [][Next]_vars

(* every gated operation, over a store with an account of each role *)
SpecGate == InitAccounts /\ [][NextGate]_vars

(* the archiving operations and the clock, over a store that may raise    *)
(* while the batch archives a candidate                                    *)
SpecBatch == Init /\ [][NextBatch]_vars

(* the reports, the exports and the listings, over a store the domain     *)
(* operations fill                                                         *)
SpecReports == Init /\ [][NextReports]_vars

(* provisioning and login, over a store that starts with one account *)
SpecAccounts == Init /\ [][NextAccounts]_vars

(* two instances archiving and unarchiving on one store, the clock moving *)
(* between any two steps                                                   *)
SpecShared == InitAccounts /\ [][NextShared]_vars

(* a batch archiving its candidates one by one while a peer records       *)
(* attendance on the same store                                            *)
SpecSharedBatch == InitAccounts /\ [][NextSharedBatch]_vars

----------------------------------------------------------------------------
(* Vocabulary of the properties *)

(* the action each gated operation requires *)
GatedOps ==
    [add_student |-> "add_student",
     record_attendance |-> "record_attendance",
     mark_as_graduated |-> "mark_graduated",
     archive_student |-> "archive_student",
     unarchive_student |-> "archive_student",
     find_students_to_archive |-> "archive_student",
     auto_archive_inactive_students |-> "archive_student",
     export_to_csv |-> "export_reports",
     export_to_json |-> "export_reports",
     export_to_excel |-> "export_reports",
     get_report_summary |-> "view_reports",
     get_users |-> "manage_accounts",
     delete_user |-> "manage_accounts"]

(* the static table of the specification *)
TableOf(role) ==
    CASE role = "admin"  -> {"add_student", "record_attendance", "mark_graduated",
                             "archive_student", "export_reports", "view_reports",
                             "manage_accounts"}
      [] role = "staff"  -> {"add_student", "record_attendance", "mark_graduated",
                             "export_reports", "view_reports"}
      [] role = "viewer" -> {"export_reports", "view_reports"}
      [] OTHER           -> {}

Anonymous == current_user = NoUser

Holds(action) == ~Anonymous /\ action \in TableOf(current_user.role)

IsArchived(sid) == students[sid].archived # 0

SomeoneHasLoggedIn == \E u \in users : u.last_login # NULL

----------------------------------------------------------------------------
(* C1: every student is archived if and only if its archived_date is not   *)
(* null, in every state the operations can reach.                          *)
C1_ArchivedIffDate ==
    \A sid \in 1 .. Len(students) :
        IsArchived(sid) <=> students[sid].archived_date # NULL

(* a student archived and then unarchived, beside one that is archived *)
C1_Witness ==
    /\ last.op = "unarchive_student" /\ last.res = "True"
    /\ StudentExists(last.arg)
    /\ ~IsArchived(last.arg) /\ students[last.arg].archived_date = NULL
    /\ \E sid \in 1 .. Len(students) :
          IsArchived(sid) /\ students[sid].archived_date # NULL

(* C2: a gated operation called with no session, or by a role that does    *)
(* not hold the operation's action, ends in PermissionError and leaves the *)
(* students, the attendance and the accounts as they were.                 *)
C2_DeniedLeavesStore ==
    [][ (last'.op \in DOMAIN GatedOps /\ ~Holds(GatedOps[last'.op]))
            => (last'.res = "PermissionError" /\ store' = store) ]_vars

(* staff, holding no manage_accounts, was refused delete_user *)
C2_Witness ==
    /\ last.op = "delete_user" /\ last.res = "PermissionError"
    /\ current_user.role = "staff"
    /\ Cardinality(users) = Cardinality(SeedUsers)

(* C3: a gated operation is let through exactly when the session's role    *)
(* holds the operation's action in the static table; with no session       *)
(* nothing is let through.                                                 *)
C3_GateIsTheTable ==
    last.op \in DOMAIN GatedOps
        => ((last.res # "PermissionError") <=> Holds(GatedOps[last.op]))

(* staff refused archive_student, which the table gives to admin only *)
C3_Witness ==
    /\ last.op = "archive_student" /\ last.res = "PermissionError"
    /\ current_user.role = "staff"

(* C4: after authenticate_user returns none the session is Anonymous,      *)
(* whoever was authenticated before; after it returns an account the       *)
(* session holds that account.                                             *)
C4_FailedLoginIsAnonymous ==
    last.op = "authenticate_user"
        => IF last.res = "None" THEN current_user = NoUser
           ELSE current_user.id = last.arg

(* C5: logout_user leaves the session Anonymous and the store untouched;   *)
(* an Anonymous session stays Anonymous until a login succeeds, and while  *)
(* it lasts every gated operation is refused.                              *)
C5_LogoutUntilLogin ==
    [][ /\ last'.op = "logout_user" => (current_user' = NoUser /\ store' = store)
        /\ (Anonymous /\ ~(last'.op = "authenticate_user" /\ last'.res = "User"))
              => current_user' = NoUser
        /\ (Anonymous /\ last'.op \in DOMAIN GatedOps)
              => last'.res = "PermissionError" ]_vars

(* a gated operation refused to a session that was logged in and then out *)
C5_Witness ==
    /\ Anonymous
    /\ SomeoneHasLoggedIn
    /\ last.op = "add_student" /\ last.res = "PermissionError"

(* the sessions of a student dated on or after today - 450 days *)
QualifyingSessions(sid) ==
    { i \in 1 .. Len(attendance) :
        /\ attendance[i].student_id = sid
        /\ attendance[i].date.v >= today - AttendanceWindowDays }

(* the eligibility rule: 12 qualifying sessions, and no graduation or one  *)
(* more than 730 days ago                                                  *)
Eligible(sid) ==
    /\ Cardinality(QualifyingSessions(sid)) >= RequiredSessions
    /\ \/ students[sid].graduation_date = NULL
       \/ today - students[sid].graduation_date.v > GraduationWindowDays

(* C6: for an existing student check_graduation_eligibility returns true   *)
(* exactly when the eligibility rule holds, and false otherwise.           *)
C6_EligibilityRule ==
    (last.op = "check_graduation_eligibility" /\ StudentExists(last.arg))
        => last.res = (IF Eligible(last.arg) THEN "True" ELSE "False")

(* C7: every attendance record refers to an existing student.              *)
C7_NoOrphanAttendance ==
    \A i \in 1 .. Len(attendance) : StudentExists(attendance[i].student_id)

(* C8: archive_student by an admin on an archived student returns success  *)
(* and changes no student; unarchive_student by an admin on an active      *)
(* student returns success and changes no student.                         *)
C8_ArchiveIdempotent ==
    [][ /\ ( /\ last'.op = "archive_student" /\ Holds("archive_student")
             /\ StudentExists(last'.arg) /\ IsArchived(last'.arg) )
            => (last'.res = "True" /\ store' = store)
        /\ ( /\ last'.op = "unarchive_student" /\ Holds("archive_student")
             /\ StudentExists(last'.arg) /\ ~IsArchived(last'.arg) )
            => (last'.res = "True" /\ store' = store) ]_vars

(* archive_student has succeeded on a student archived on an earlier day *)
C8_Witness ==
    /\ last.op = "archive_student" /\ last.res = "True"
    /\ StudentExists(last.arg) /\ IsArchived(last.arg)
    /\ students[last.arg].archived_date.v < today

(* C9: mark_as_graduated leaves graduation_date at the current date, and   *)
(* check_graduation_eligibility returns false for a student whose          *)
(* graduation is at most 730 days old.                                     *)
C9_RecentGraduateIneligible ==
    /\ (last.op = "mark_as_graduated" /\ last.res = "None"
            /\ StudentExists(last.arg))
          => ( /\ students[last.arg].graduation_date # NULL
               /\ students[last.arg].graduation_date.v = today )
    /\ (last.op = "check_graduation_eligibility" /\ StudentExists(last.arg)
            /\ students[last.arg].graduation_date # NULL
            /\ today - students[last.arg].graduation_date.v <= GraduationWindowDays)
          => last.res = "False"

(* C10: find_students_to_archive returns exactly the students that are not *)
(* archived, have no session dated on or after the threshold, and were     *)
(* created strictly before it.                                             *)
C10_FindInactive ==
    (last.op = "find_students_to_archive" /\ last.res = "list")
        => LET threshold == today - last.arg * DaysPerMonth IN
           last.ret =
             { sid \in 1 .. Len(students) :
                 /\ ~IsArchived(sid)
                 /\ \A i \in 1 .. Len(attendance) :
                       attendance[i].student_id = sid
                           => attendance[i].date.v < threshold
                 /\ students[sid].created_date.v < threshold }

(* one student returned, and one created on the threshold day left out     *)
(* although it has no session                                              *)
C10_Witness ==
    /\ last.op = "find_students_to_archive" /\ last.res = "list"
    /\ last.ret # {}
    /\ \E sid \in 1 .. Len(students) :
          /\ sid \notin last.ret
          /\ ~IsArchived(sid)
          /\ students[sid].created_date.v = today - last.arg * DaysPerMonth
          /\ \A i \in 1 .. Len(attendance) : attendance[i].student_id # sid

(* the students a threshold day makes inactive: not archived, no session   *)
(* dated on or after the threshold, created strictly before it             *)
InactiveBefore(threshold) ==
    { sid \in 1 .. Len(students) :
        /\ ~IsArchived(sid)
        /\ \A i \in 1 .. Len(attendance) :
              attendance[i].student_id = sid => attendance[i].date.v < threshold
        /\ students[sid].created_date.v < threshold }

(* C11: auto_archive_inactive_students by an admin archives, with the      *)
(* current date, every student find_students_to_archive returns and only   *)
(* those: every other student keeps its row, and no attendance or account  *)
(* record changes.                                                         *)
C11_AutoArchiveFrame ==
    [][ (last'.op = "auto_archive_inactive_students" /\ Holds("archive_student"))
          => LET found == InactiveBefore(today - last'.arg * DaysPerMonth) IN
             /\ last'.res = "dict"
             /\ last'.ret = found
             /\ Len(students') = Len(students)
             /\ \A sid \in 1 .. Len(students) :
                   IF sid \in found
                   THEN /\ students'[sid].archived = 1
                        /\ students'[sid].archived_date # NULL
                        /\ students'[sid].archived_date.v = today
                   ELSE students'[sid] = students[sid]
             /\ attendance' = attendance
             /\ users' = users ]_vars

(* one student archived by the run beside one it left alone although that  *)
(* one has no session: it was created inside the window                    *)
C11_Witness ==
    /\ last.op = "auto_archive_inactive_students" /\ last.res = "dict"
    /\ last.counts.archived = 1
    /\ \E sid \in 1 .. Len(students) :
          /\ sid \in last.ret /\ IsArchived(sid)
          /\ students[sid].archived_date.v = today
    /\ \E sid \in 1 .. Len(students) :
          /\ sid \notin last.ret /\ ~IsArchived(sid)
          /\ students[sid].created_date.v >= today - last.arg * DaysPerMonth
          /\ \A i \in 1 .. Len(attendance) : attendance[i].student_id # sid

(* C12: the batch goes on after a failure: every candidate is attempted    *)
(* once, so identified = archived + failed; the candidates counted as      *)
(* archived are archived in the store, failures before or after them       *)
(* notwithstanding, and the others keep their rows.                        *)
C12_ContinueOnError ==
    [][ (last'.op = "auto_archive_inactive_students" /\ last'.res = "dict")
          => LET found == InactiveBefore(today - last'.arg * DaysPerMonth)
                 now_archived == { sid \in found : students'[sid].archived = 1 }
             IN
             /\ last'.ret = found
             /\ last'.counts.identified = Cardinality(found)
             /\ last'.counts.identified
                    = last'.counts.archived + last'.counts.failed
             /\ last'.counts.archived = Cardinality(now_archived)
             /\ \A sid \in 1 .. Len(students) :
                   sid \notin now_archived => students'[sid] = students[sid] ]_vars

(* a run whose first candidate failed and whose second was archived *)
C12_Witness ==
    /\ last.op = "auto_archive_inactive_students" /\ last.res = "dict"
    /\ last.counts.failed = 1 /\ last.counts.archived = 1
    /\ \E a, b \in last.ret :
          /\ a < b
          /\ ~IsArchived(a)
          /\ IsArchived(b) /\ students[b].archived_date.v = today

ReportOps == {"get_detailed_attendance_report", "get_student_progress_report",
              "get_instructor_report", "get_graduation_eligibility_report",
              "get_attendance_summary", "get_report_summary"}

ExportOps == {"export_to_csv", "export_to_json", "export_to_excel"}

(* C13: a report operation is refused with PermissionError unless the      *)
(* session's role holds view_reports, an export unless it also holds       *)
(* export_reports; an Anonymous session is given no report.                *)
C13_ReportsAreGated ==
    /\ (last.op \in ReportOps /\ ~Holds("view_reports"))
          => last.res = "PermissionError"
    /\ (last.op \in ExportOps
            /\ ~(Holds("view_reports") /\ Holds("export_reports")))
          => last.res = "PermissionError"

(* the sessions of a student dated inside the inclusive window asked for *)
WindowSessions(q, sid) ==
    { i \in 1 .. Len(attendance) :
        /\ attendance[i].student_id = sid
        /\ q.start_date # NULL => attendance[i].date.v >= q.start_date.v
        /\ q.end_date # NULL => attendance[i].date.v <= q.end_date.v }

(* C14: whatever the dates and the archived flag asked for, the student    *)
(* progress report has exactly one row for each student the flag lets in   *)
(* (all of them, or the ones not archived), and the row counts the         *)
(* student's sessions in the window, zero included.                        *)
C14_ProgressOneRowPerStudent ==
    last.op = "get_student_progress_report"
        => LET q == ReportQuery(last.arg) IN
           last.ret =
             { [student_id |-> sid,
                total_sessions |-> Cardinality(WindowSessions(q, sid))] :
                 sid \in { x \in 1 .. Len(students) :
                             q.include_archived \/ ~IsArchived(x) } }

(* C15: the rows of the graduation-eligible report are the students for    *)
(* whom check_graduation_eligibility is true, less the archived ones when  *)
(* include_archived is false, and sessions_attended of a row counts the    *)
(* student's sessions of the trailing 450 days only.                       *)
C15_ReportAgreesWithEngine ==
    last.op = "get_graduation_eligibility_report"
        => last.ret =
             { [student_id |-> sid,
                sessions_attended |-> Cardinality(QualifyingSessions(sid))] :
                 sid \in { x \in 1 .. Len(students) :
                             /\ check_graduation_eligibility(x) = "True"
                             /\ last.arg = 1 \/ ~IsArchived(x) } }

(* C16: create_user with a username already taken returns false and leaves *)
(* the accounts as they are; with a role outside admin, staff and viewer   *)
(* it raises and creates no account; otherwise it returns true and the     *)
(* accounts are the old ones and exactly one new account, of that username *)
(* and role.  Usernames stay unique.                                       *)
C16_CreateUser ==
    [][ /\ \A username \in Usernames, password \in Passwords,
              role \in RequestedRoles :
            create_user(username, password, role) =>
              IF role \notin {"admin", "staff", "viewer"}
              THEN last'.res = "ValueError" /\ users' = users
              ELSE IF \E u \in users : u.username = username
              THEN last'.res = "False" /\ users' = users
              ELSE /\ last'.res = "True"
                   /\ users \subseteq users'
                   /\ Cardinality(users' \ users) = 1
                   /\ \A u \in users' \ users :
                         u.username = username /\ u.role = role
        /\ \A u, v \in users' : u.username = v.username => u = v ]_vars

(* a second create_user for a username was refused, the account the first  *)
(* one made being in the store                                             *)
C16_Witness ==
    /\ last.op = "create_user" /\ last.res = "False"
    /\ Cardinality(users) > 1
    /\ Cardinality(users) = Cardinality({ u.username : u \in users })

(* the password an account was provisioned with *)
ProvisionedPassword(u) == u.password_hash.digest[1]

(* C17: authenticate_user returns an account exactly when an account of    *)
(* that username exists and the password is the one it was provisioned     *)
(* with; then last_login of that account, and nothing else in the          *)
(* accounts, is written.  A failed attempt returns none and leaves every   *)
(* account as it is, with one and the same outcome for an unknown username *)
(* and for a wrong password.                                               *)
C17_Authenticate ==
    [][ \A username \in Usernames, password \in Passwords :
          authenticate_user(username, password) =>
            LET matching == { u \in users :
                                /\ u.username = username
                                /\ ProvisionedPassword(u) = password }
            IN  IF matching # {}
                THEN /\ last'.res = "User"
                     /\ \E u \in matching :
                          /\ last'.arg = u.id
                          /\ users' = (users \ {u}) \cup
                                {[u EXCEPT !.last_login = Text(today)]}
                ELSE /\ last' = Outcome("authenticate_user", 0, "None", NoRet)
                     /\ users' = users ]_vars

(* a created account has logged in with the password it was created with, *)
(* after which a wrong password was refused                                *)
C17_Witness ==
    /\ last.op = "authenticate_user" /\ last.res = "None"
    /\ \E u \in users :
          /\ \A v \in SeedUsers : v.id # u.id
          /\ ProvisionedPassword(u) = "wrong"
          /\ u.last_login # NULL

(* C18: archive_student and unarchive_student by an admin, given an id     *)
(* that no student has, return false and change no record.                 *)
C18_UnknownStudent ==
    [][ ( /\ last'.op \in {"archive_student", "unarchive_student"}
          /\ Holds("archive_student")
          /\ ~StudentExists(last'.arg) )
            => (last'.res = "False" /\ store' = store) ]_vars

(* unarchive_student has returned false for an id beyond the last student, *)
(* beside a student that is archived                                       *)
C18_Witness ==
    /\ last.op = "unarchive_student" /\ last.res = "False"
    /\ ~StudentExists(last.arg)
    /\ \E sid \in 1 .. Len(students) : IsArchived(sid)

(* C19: get_archived_students returns the archived students and no other,  *)
(* get_active_students the students that are not archived, and             *)
(* get_all_students every student: the first two results are disjoint and  *)
(* together make the third.                                                *)
C19_Listings ==
    /\ last.op = "get_archived_students"
          => last.ret = { sid \in 1 .. Len(students) : IsArchived(sid) }
    /\ last.op = "get_active_students"
          => last.ret = { sid \in 1 .. Len(students) : ~IsArchived(sid) }
    /\ last.op = "get_all_students"
          => last.ret = 1 .. Len(students)

(* C20: with two instances on one store, the write of an archive_student   *)
(* call never replaces the archived_date of a student that is archived     *)
(* when the write happens: the check and the update of a call act as one   *)
(* step.                                                                   *)
C20_ArchiveWriteKeepsDate ==
    [][ (last.op = "archive_student" /\ last.res = "pending"
            /\ last'.op = "archive_student" /\ last'.res = "True"
            /\ IsArchived(last.arg))
          => students'[last.arg].archived_date = students[last.arg].archived_date
      ]_vars

(* C21: with a peer recording attendance, the batch never archives a       *)
(* student that, when its archive is written, has a session dated on or    *)
(* after the inactivity threshold: who attends between the query and the   *)
(* archive step is left active.                                            *)
C21_AttendedNotArchived ==
    [][ (last.op = "auto_archive_inactive_students" /\ last.res = "pending")
          => \A sid \in 1 .. Len(students) :
                (~IsArchived(sid) /\ students'[sid].archived = 1)
                  => \A i \in 1 .. Len(attendance) :
                        attendance[i].student_id = sid
                          => attendance[i].date.v
                                < today - last.arg * DaysPerMonth ]_vars

(* the account the session was made from is in the store, with its role *)
SessionAccountExists ==
    \E u \in users :
        /\ u.id = current_user.id
        /\ u.username = current_user.username
        /\ u.role = current_user.role

(* C22: an authenticated session refers to an account of the store with    *)
(* the role the session holds; after delete_user has removed an account,   *)
(* no gated operation is let through on that account's authority.          *)
C22_SessionHasAccount ==
    /\ ~Anonymous => SessionAccountExists
    /\ (last.op \in DOMAIN GatedOps /\ last.op # "delete_user"
            /\ last.res # "PermissionError")
          => SessionAccountExists

====
